---- MODULE Spec2Model ----
(***************************************************************************)
(* Model of the landing-generator backend: the current two-step banner     *)
(* service (src/app.py) and the earlier three-step service with the        *)
(* landing-page store (src/_old_python/app.py).                            *)
(*                                                                         *)
(* A request is handled in steps: the handler runs from its entry, or from *)
(* the return of a blocking generation call, to the next such call or to   *)
(* its response; each such step is one action.  What a step sees of the    *)
(* outside world (the request body, the reply of the generation call, the  *)
(* files under and around the application root) is an input of the action. *)
(*                                                                         *)
(* Python values are modelled as follows.                                  *)
(*   - Optional values: None is <<>>, a present value x is <<x>>.          *)
(*   - A string is a sequence of tokens ("/", "static", ".png", ...).      *)
(*   - A JSON value is a record [type, str, fields]; `fields` is the       *)
(*     dict of an object (a function from keys) or the list of an array.   *)
(*   - Bytes are [decodable, src, colors]: whether an image decoder        *)
(*     accepts them, who produced the picture, how many colours it has.    *)
(*   - A prompt is a record of the values a builder puts into its text.    *)
(*                                                                         *)
(* Specifications: Spec (the banner routes of both services, save-course,  *)
(* register), SpecLanding (create-landing and the landing view), SpecAll   *)
(* (every route on one process state, with few inputs of each kind),       *)
(* SpecPrompt and SpecExtract (the prompt builders and the image           *)
(* extraction as pure functions of their inputs).                          *)
(***************************************************************************)
EXTENDS Integers, Sequences, FiniteSets, TLC

VARIABLES
    HAS_WAND,        \* app.py:15-19, set once at import time
    APPS_SCRIPT_URL, \* environment: whether the webhook URL is configured
    landing_pages,   \* _old_python/app.py:450, the in-memory store
    req              \* the request being handled, or the one handled last

vars == <<HAS_WAND, APPS_SCRIPT_URL, landing_pages, req>>

----------------------------------------------------------------------------
(* Optional values *)

None == <<>>
Some(x) == <<x>>
IsNone(o) == Len(o) = 0
IsSome(o) == Len(o) = 1
The(o) == o[1]

----------------------------------------------------------------------------
(* Strings as token sequences *)

EmptyStr == <<>>

startswith(s, prefix) ==
    /\ Len(s) >= Len(prefix)
    /\ SubSeq(s, 1, Len(prefix)) = prefix

RECURSIVE lstrip(_, _)
lstrip(s, ch) ==
    IF Len(s) > 0 /\ Head(s) = ch THEN lstrip(Tail(s), ch) ELSE s

----------------------------------------------------------------------------
(* JSON values and Python truthiness *)

JNull == [type |-> "null", str |-> EmptyStr, fields |-> <<>>]
JStr(s) == [type |-> "string", str |-> s, fields |-> <<>>]
JArr(items) == [type |-> "array", str |-> EmptyStr, fields |-> items]
JObj(f) == [type |-> "object", str |-> EmptyStr, fields |-> f]
EmptyObj == JObj(<<>>)

IsDict(v) == v.type = "object"
IsStr(v) == v.type = "string"

\* bool(v): None, "", [] and {} are falsy
Truthy(v) ==
    CASE v.type = "null" -> FALSE
      [] v.type = "string" -> Len(v.str) > 0
      [] OTHER -> DOMAIN v.fields # {}

\* v or {}
OrEmptyObj(v) == IF Truthy(v) THEN v ELSE EmptyObj

\* d.get(key, default) on a dict d
Get(d, key, default) ==
    IF key \in DOMAIN d.fields THEN d.fields[key] ELSE default

----------------------------------------------------------------------------
(* Bytes, images, base64 *)

Bytes(decodable, src, colors) ==
    [decodable |-> decodable, src |-> src, colors |-> colors]

\* PIL Image.open(BytesIO(b)): raises on bytes that are no image
ImageOpen(b) ==
    IF b.decodable
    THEN [raised |-> FALSE, img |-> Some([src |-> b.src, colors |-> b.colors])]
    ELSE [raised |-> TRUE, img |-> None]

\* img.save(buf, format="PNG"); buf.getvalue()
SavePng(img) == Bytes(TRUE, img.src, img.colors)

b64encode(b) == [b64 |-> b]
b64decode(d) == d.b64

----------------------------------------------------------------------------
(* The files of the deployment.  A path is a sequence of segments from the *)
(* filesystem root, a segment a sequence of tokens (stem, then extension). *)

DotDot == <<"..">>
Dot == <<".">>

AppRoot == << <<"srv">>, <<"app">> >>
StaticRoot == Append(AppRoot, <<"static">>)

Dirs == { <<>>, << <<"srv">> >>, AppRoot, StaticRoot }

File(path, bytes, convertible, readable) ==
    [path |-> path, bytes |-> bytes, convertible |-> convertible,
     readable |-> readable]

Files ==
    { File(Append(StaticRoot, <<"logo", ".png">>),
           Bytes(TRUE, "logo.png", 8), TRUE, TRUE),
      File(Append(StaticRoot, <<"mark", ".SVG">>),
           Bytes(FALSE, "mark.SVG", 4), TRUE, TRUE),
      File(Append(StaticRoot, <<"broken", ".svg">>),
           Bytes(FALSE, "broken.svg", 0), FALSE, TRUE),
      File(Append(StaticRoot, <<"broken", ".png">>),
           Bytes(FALSE, "broken.png", 0), FALSE, TRUE),
      File(Append(StaticRoot, <<"notes", ".txt">>),
           Bytes(FALSE, "notes.txt", 0), FALSE, TRUE),
      File(Append(StaticRoot, <<"locked", ".png">>),
           Bytes(TRUE, "locked.png", 8), TRUE, FALSE),
      File(Append(AppRoot, <<".env">>),
           Bytes(FALSE, ".env", 0), FALSE, TRUE),
      File(<< <<"srv">>, <<"private", ".png">> >>,
           Bytes(TRUE, "private.png", 8), TRUE, TRUE) }

FilePaths == { f.path : f \in Files }
FileAt(path) == CHOOSE f \in Files : f.path = path

IsPrefix(p, q) == Len(p) <= Len(q) /\ SubSeq(q, 1, Len(p)) = p
UnderStatic(path) == IsPrefix(StaticRoot, path) /\ path # StaticRoot

\* split a path string on "/": pathlib drops empty and "." segments
RECURSIVE SplitFrom(_, _, _)
SplitFrom(s, i, cur) ==
    LET done == IF cur = <<>> \/ cur = Dot THEN <<>> ELSE <<cur>>
    IN  IF i > Len(s) THEN done
        ELSE IF s[i] = "/" THEN done \o SplitFrom(s, i + 1, <<>>)
        ELSE SplitFrom(s, i + 1, Append(cur, s[i]))

PathParts(s) == SplitFrom(s, 1, <<>>)

Parent(path) == IF Len(path) = 0 THEN path ELSE SubSeq(path, 1, Len(path) - 1)

\* the file or directory the operating system reaches by following `segs`
\* from `cur`: ".." steps to the parent, a name must exist in a directory
RECURSIVE Walk(_, _)
Walk(cur, segs) ==
    IF Len(segs) = 0 THEN Some(cur)
    ELSE IF cur \notin Dirs THEN None
    ELSE IF Head(segs) = DotDot THEN Walk(Parent(cur), Tail(segs))
    ELSE IF Append(cur, Head(segs)) \in Dirs \cup FilePaths
         THEN Walk(Append(cur, Head(segs)), Tail(segs))
         ELSE None

\* Path.exists() / open(): resolve the lexical path from the filesystem root
Resolve(file_path) == Walk(<<>>, file_path)

ExtTokens == {".png", ".PNG", ".jpg", ".jpeg", ".svg", ".SVG", ".txt"}

\* Path.suffix: the extension of the last segment, "" when it has none
suffix_of(file_path) ==
    LET name == file_path[Len(file_path)]
    IN  IF Len(name) >= 2 /\ name[Len(name)] \in ExtTokens
        THEN name[Len(name)] ELSE ""

lower(ext) ==
    CASE ext = ".PNG" -> ".png"
      [] ext = ".SVG" -> ".svg"
      [] OTHER -> ext

\* mime_types.get(suffix, "image/png")
mime_type_of(suffix) ==
    CASE suffix = ".png" -> "image/png"
      [] suffix = ".jpg" -> "image/jpeg"
      [] suffix = ".jpeg" -> "image/jpeg"
      [] OTHER -> "image/png"

LogoResult(raised, value, reads) ==
    [raised |-> raised, value |-> value, reads |-> reads]

\* load_logo_as_base64(logo_url): `reads` lists the files it opened
load_logo_as_base64(logo_url, has_wand) ==
    IF ~Truthy(logo_url) THEN LogoResult(FALSE, None, <<>>)
    ELSE IF ~IsStr(logo_url) THEN LogoResult(TRUE, None, <<>>)
    ELSE IF ~startswith(logo_url.str, <<"/", "static", "/">>)
         THEN LogoResult(FALSE, None, <<>>)
    ELSE
    LET file_path == AppRoot \o PathParts(lstrip(logo_url.str, "/"))
        target == Resolve(file_path)
        suffix == lower(suffix_of(file_path))
    IN  IF IsNone(target) THEN LogoResult(FALSE, None, <<>>)
        ELSE IF suffix = ".svg" THEN
            IF ~has_wand THEN LogoResult(FALSE, None, <<>>)
            ELSE IF The(target) \in Dirs THEN LogoResult(FALSE, None, <<>>)
            ELSE IF ~FileAt(The(target)).readable
                 THEN LogoResult(FALSE, None, <<>>)
            ELSE IF ~FileAt(The(target)).convertible
                 THEN LogoResult(FALSE, None, <<The(target)>>)
            ELSE LET f == FileAt(The(target))
                     png_data == Bytes(TRUE, f.bytes.src, f.bytes.colors)
                 IN  LogoResult(FALSE,
                        Some([data |-> b64encode(png_data),
                              mime |-> "image/png"]),
                        <<The(target)>>)
        ELSE IF The(target) \in Dirs THEN LogoResult(TRUE, None, <<>>)
        ELSE IF ~FileAt(The(target)).readable THEN LogoResult(TRUE, None, <<>>)
        ELSE LogoResult(FALSE,
                Some([data |-> b64encode(FileAt(The(target)).bytes),
                      mime |-> mime_type_of(suffix)]),
                <<The(target)>>)

\* load_logo_as_pil(logo_url)
load_logo_as_pil(logo_url, has_wand) ==
    LET logo_data == load_logo_as_base64(logo_url, has_wand)
    IN  IF logo_data.raised
        THEN [raised |-> TRUE, img |-> None, reads |-> logo_data.reads]
        ELSE IF IsNone(logo_data.value)
        THEN [raised |-> FALSE, img |-> None, reads |-> logo_data.reads]
        ELSE LET opened == ImageOpen(b64decode(The(logo_data.value).data))
             IN  [raised |-> opened.raised, img |-> opened.img,
                  reads |-> logo_data.reads]

----------------------------------------------------------------------------
(* Palette extraction *)

Min(a, b) == IF a < b THEN a ELSE b

HexDigits == <<"0", "1", "2", "3", "4", "5", "6", "7",
               "8", "9", "a", "b", "c", "d", "e", "f">>

\* '{:02x}'.format(n)
Hex2(n) == <<HexDigits[(n \div 16) + 1], HexDigits[(n % 16) + 1]>>

\* rgb_to_hex(rgb): '#{:02x}{:02x}{:02x}'
rgb_to_hex(rgb) == <<"#">> \o Hex2(rgb[1]) \o Hex2(rgb[2]) \o Hex2(rgb[3])

\* ColorThief.get_palette(color_count, quality=1): at most color_count
\* colours, fewer when the picture has fewer
get_palette(b, color_count) ==
    [k \in 1..Min(b.colors, color_count) |->
        <<(k * 50) % 256, (k * 90) % 256, (k * 20) % 256>>]

\* palette extraction without its try/except
extract_palette_uncaught(base64_data) ==
    LET image_data == b64decode(base64_data)
        palette == get_palette(image_data, 5)
    IN  IF ~image_data.decodable \/ Len(palette) < 3
        THEN [raised |-> TRUE, value |-> None]
        ELSE [raised |-> FALSE,
              value |-> Some([primary |-> rgb_to_hex(palette[1]),
                              accent |-> rgb_to_hex(palette[2]),
                              background |-> rgb_to_hex(palette[3]),
                              text |-> rgb_to_hex(palette[1]),
                              palette |-> [k \in DOMAIN palette |->
                                              rgb_to_hex(palette[k])]])]

\* extract_palette_from_image(base64_data): every exception is caught
extract_palette_from_image(base64_data) ==
    LET image_data == b64decode(base64_data)
        palette == get_palette(image_data, 5)
    IN  IF ~image_data.decodable THEN [raised |-> FALSE, value |-> None]
        ELSE IF Len(palette) < 3 THEN [raised |-> FALSE, value |-> None]
        ELSE [raised |-> FALSE,
              value |-> Some([primary |-> rgb_to_hex(palette[1]),
                              accent |-> rgb_to_hex(palette[2]),
                              background |-> rgb_to_hex(palette[3]),
                              text |-> rgb_to_hex(palette[1]),
                              palette |-> [k \in DOMAIN palette |->
                                              rgb_to_hex(palette[k])]])]

----------------------------------------------------------------------------
(* Image generation client *)

TextPart == [inline_data |-> None]
InlinePart(b) == [inline_data |-> Some(b)]

\* a reply of the generation service: it raises, or it is a response whose
\* parts are found under .parts or under .candidates[0].content.parts
Reply(raises, parts, candidates) ==
    [raises |-> raises,
     response |-> [parts |-> parts, candidates |-> candidates]]

\* a scan that gives up at the first inline part that does not decode
RECURSIVE first_inline_image(_)
first_inline_image(parts) ==
    IF Len(parts) = 0 THEN None
    ELSE IF IsSome(Head(parts).inline_data)
         THEN ImageOpen(The(Head(parts).inline_data)).img
         ELSE first_inline_image(Tail(parts))

\* the first part, in order, that carries inline data the decoder accepts
RECURSIVE first_image(_)
first_image(parts) ==
    IF Len(parts) = 0 THEN None
    ELSE IF IsSome(Head(parts).inline_data)
            /\ ~ImageOpen(The(Head(parts).inline_data)).raised
         THEN ImageOpen(The(Head(parts).inline_data)).img
         ELSE first_image(Tail(parts))

\* extract_image_from_response(response)
extract_image_from_response(response) ==
    LET parts == IF IsSome(response.parts) THEN The(response.parts)
                 ELSE IF Len(response.candidates) > 0
                         /\ IsSome(response.candidates[1])
                      THEN The(response.candidates[1])
                      ELSE <<>>
    IN  first_image(parts)

\* image_to_base64_url(img)
image_to_base64_url(img) ==
    [prefix |-> "data:image/png;base64", payload |-> b64encode(SavePng(img))]

\* url.split(",")[1]
payload_of(url) == url.payload

\* a client that tries a second time when the call raises
generate_content_retry(step, prompt, images, reply) ==
    [calls |-> IF reply.raises
               THEN << [step |-> step, prompt |-> prompt, images |-> images],
                       [step |-> step, prompt |-> prompt, images |-> images] >>
               ELSE << [step |-> step, prompt |-> prompt,
                        images |-> images] >>,
     raised |-> reply.raises,
     response |-> reply.response]

\* client.models.generate_content(...): one outbound call
generate_content(step, prompt, images, reply) ==
    [calls |-> << [step |-> step, prompt |-> prompt, images |-> images] >>,
     raised |-> reply.raises,
     response |-> reply.response]

\* parts_en: the logo, when there is one, goes before the prompt
logo_parts(logo_img) ==
    IF IsSome(logo_img) THEN <<SavePng(The(logo_img))>> ELSE <<>>

----------------------------------------------------------------------------
(* Prompt builders *)

\* details.get('title', 'Course')
DefaultTitle == <<"Course">>

\* a Hebrew edit prompt that falls back to the English word
UntranslatedTitle == <<"Course">>

\* details.get("title", "קורס")
DefaultHebrewTitle == <<"קורס">>

\* a builder that keeps the whole description
slice_nothing(v, n) == v

\* v[:n]: the first n characters of a string, the first n items of a list
slice(v, n) ==
    IF IsStr(v) THEN JStr(SubSeq(v.str, 1, Min(n, Len(v.str))))
    ELSE JArr(SubSeq(v.fields, 1, Min(n, Len(v.fields))))

\* v[:n] raises TypeError unless v is a string or a list
Sliceable(v) == v.type \in {"string", "array"}

\* f"{v}": a string as it is, any other value by its repr
format(v) == IF IsStr(v) THEN v.str ELSE <<"repr", v.type>>

PromptRaised == [raised |-> TRUE, prompt |-> None]
Prompt(p) == [raised |-> FALSE, prompt |-> Some(p)]

\* build_background_prompt(course_data)
build_background_prompt(course_data) ==
    LET details == Get(course_data, "course_details", EmptyObj)
        design == Get(course_data, "design_preferences", EmptyObj)
    IN  IF ~IsDict(details) THEN PromptRaised
        ELSE
        LET title == Get(details, "title", JStr(DefaultTitle))
            whole == Get(details, "description", JStr(EmptyStr))
        IN  IF ~Sliceable(whole) \/ ~IsDict(design) THEN PromptRaised
            ELSE
            LET description == slice(whole, 100)
            IN  Prompt(
                  [kind |-> "background",
                   topic |-> format(title),
                   context |-> format(description),
                   style |-> format(Get(design, "aesthetic_style",
                                        JStr(<<"modern professional">>))),
                   color_scheme |-> format(Get(design, "color_palette",
                                        JStr(<<"professional colors">>))),
                   lighting |-> format(Get(design, "lighting_and_atmosphere",
                                        JStr(<<"bright and inviting">>)))])

\* build_english_prompt(course_data, has_logo)
build_english_prompt(course_data, has_logo) ==
    LET details == Get(course_data, "course_details", EmptyObj)
        design == Get(course_data, "design_preferences", EmptyObj)
    IN  IF ~IsDict(details) THEN PromptRaised
        ELSE
        LET title == Get(details, "title", JStr(DefaultTitle))
            whole == Get(details, "description", JStr(EmptyStr))
        IN  IF ~Sliceable(whole) \/ ~IsDict(design) THEN PromptRaised
            ELSE
            LET description == slice(whole, 100)
            IN  Prompt(
                  [kind |-> "english",
                   topic |-> format(title),
                   context |-> format(description),
                   logo_instruction |-> has_logo,
                   style |-> format(Get(design, "aesthetic_style",
                                        JStr(<<"modern professional">>))),
                   color_scheme |-> format(Get(design, "color_palette",
                                        JStr(<<"professional colors">>))),
                   lighting |-> format(Get(design, "lighting_and_atmosphere",
                                        JStr(<<"bright and inviting">>))),
                   title |-> format(title),
                   subtitle |-> format(slice(description, 60)) \o <<"...">>])

\* build_hebrew_edit_prompt(course_data)
build_hebrew_edit_prompt(course_data) ==
    LET details == Get(course_data, "course_details", EmptyObj)
    IN  IF ~IsDict(details) THEN PromptRaised
        ELSE
        LET title == Get(details, "title", JStr(DefaultHebrewTitle))
            whole == Get(details, "description", JStr(EmptyStr))
            schedule == Get(details, "schedule", EmptyObj)
        IN  IF ~Sliceable(whole) \/ ~IsDict(schedule) THEN PromptRaised
            ELSE
            LET description == slice(whole, 80)
            IN  Prompt(
                  [kind |-> "hebrew_edit",
                   title |-> format(title),
                   subtitle |-> format(description),
                   dates |-> format(Get(schedule, "dates", JStr(EmptyStr))),
                   time |-> format(Get(schedule, "time", JStr(EmptyStr))),
                   days |-> format(Get(schedule, "days", JStr(EmptyStr))),
                   location |-> format(Get(details, "location",
                                           JStr(EmptyStr))),
                   duration |-> format(Get(details, "duration",
                                           JStr(EmptyStr)))])

----------------------------------------------------------------------------
(* HTTP responses *)

\* jsonify(body), status
JsonResponse(status, body) == [status |-> status, kind |-> "json", body |-> body]

\* an exception nobody catches: the framework answers with its error page
ErrorPage == [status |-> 500, kind |-> "error_page", body |-> <<>>]

\* render_template(template, **context)
HtmlResponse(template, context) ==
    [status |-> 200, kind |-> "html", body |-> context, template |-> template]

----------------------------------------------------------------------------
(* Request bodies *)

\* a body is absent, is not JSON, or is a JSON value
RequestBody(raw, json) == [raw |-> raw, json |-> json]

\* request.get_json(silent=True): None unless the body parses
get_json(body) == IF body.raw = "json" THEN body.json ELSE JNull

\* the pipeline's outcome as the handler sees it
NotReturned == [returned |-> FALSE, raised |-> FALSE, result |-> None]
Returned(result) == [returned |-> TRUE, raised |-> FALSE, result |-> result]
Raised == [returned |-> FALSE, raised |-> TRUE, result |-> None]

Idle ==
    [endpoint |-> "none", app |-> "none", pc |-> "idle",
     body |-> RequestBody("absent", JNull), payload |-> EmptyObj,
     course_data |-> EmptyObj, logo_url |-> JNull, logo_img |-> None,
     reads |-> <<>>, background_url |-> None, img_bg |-> None,
     img_en |-> None, img_he |-> None, calls |-> <<>>,
     pipeline |-> NotReturned, response |-> None,
     landing_id |-> 0, events |-> <<>>, prompts |-> None,
     extraction |-> None]

\* generate_banner, from its entry to the call of the pipeline
\* (src/app.py:331-351): the payload, the course data, the logo
banner_prelude(body, has_wand) ==
    LET payload == OrEmptyObj(get_json(body))
        crash == [Idle EXCEPT !.body = body, !.payload = payload,
                              !.pc = "done", !.response = Some(ErrorPage)]
    IN  IF ~IsDict(payload) THEN crash
        ELSE
        LET course_data == OrEmptyObj(Get(payload, "courseData", JNull))
            crash_cd == [crash EXCEPT !.course_data = course_data]
        IN  IF ~IsDict(course_data) THEN crash_cd
            ELSE
            LET branding == Get(course_data, "branding", EmptyObj)
            IN  IF ~IsDict(branding) THEN crash_cd
                ELSE
                LET logo_info == Get(branding, "logo", EmptyObj)
                IN  IF Truthy(logo_info) /\ ~IsDict(logo_info) THEN crash_cd
                    ELSE
                    LET logo_url == IF Truthy(logo_info)
                                    THEN Get(logo_info, "url", JNull)
                                    ELSE JNull
                        loaded == IF Truthy(logo_url)
                                  THEN load_logo_as_pil(logo_url, has_wand)
                                  ELSE [raised |-> FALSE, img |-> None,
                                        reads |-> <<>>]
                    IN  IF loaded.raised
                        THEN [crash_cd EXCEPT !.logo_url = logo_url,
                                              !.reads = loaded.reads]
                        ELSE [Idle EXCEPT !.body = body,
                                          !.payload = payload,
                                          !.course_data = course_data,
                                          !.logo_url = logo_url,
                                          !.logo_img = loaded.img,
                                          !.reads = loaded.reads,
                                          !.pc = "pipeline"]

----------------------------------------------------------------------------
(* Banner pipeline, two-step service (src/app.py) *)

\* the end of generate_banner_with_hebrew: the Hebrew banner, or the
\* English one when the edit gave no image
hebrew_result(img_he, img_en) ==
    IF IsNone(img_he)
    THEN Some(image_to_base64_url(The(img_en)))
    ELSE Some(image_to_base64_url(The(img_he)))

\* a handler that does not test `if not images`
generate_banner_respond_unchecked(pipeline, course_data) ==
    IF pipeline.raised
    THEN JsonResponse(500, [success |-> FALSE, error |-> "exception"])
    ELSE
    LET images == IF IsSome(pipeline.result)
                  THEN <<The(pipeline.result)>> ELSE <<>>
        extracted == IF Len(images) = 0
                     THEN [raised |-> FALSE, value |-> None]
                     ELSE extract_palette_from_image(payload_of(images[1]))
    IN  IF extracted.raised THEN ErrorPage
        ELSE JsonResponse(200,
                [success |-> TRUE,
                 images |-> images,
                 extracted_colors |-> extracted.value,
                 generatedAt |-> "now",
                 courseData |-> course_data])

\* generate_banner after the pipeline: its response
generate_banner_respond(pipeline, course_data) ==
    IF pipeline.raised
    THEN JsonResponse(500, [success |-> FALSE, error |-> "exception"])
    ELSE
    LET images == IF IsSome(pipeline.result)
                  THEN <<The(pipeline.result)>> ELSE <<>>
    IN  IF Len(images) = 0
        THEN JsonResponse(500, [success |-> FALSE,
                                error |-> "Failed to generate images"])
        ELSE
        LET extracted == extract_palette_from_image(payload_of(images[1]))
        IN  IF extracted.raised THEN ErrorPage
            ELSE JsonResponse(200,
                    [success |-> TRUE,
                     images |-> images,
                     extracted_colors |-> extracted.value,
                     generatedAt |-> "now",
                     courseData |-> course_data])

finish(r, pipeline) ==
    [r EXCEPT !.pipeline = pipeline, !.pc = "done",
              !.response = Some(generate_banner_respond(pipeline,
                                                        r.course_data))]

\* Step 1: the English banner
english_step(r, reply) ==
    LET prompt_en == build_english_prompt(r.course_data, IsSome(r.logo_img))
    IN  IF prompt_en.raised THEN finish(r, Raised)
        ELSE
        LET c == generate_content("english", The(prompt_en.prompt),
                                  logo_parts(r.logo_img), reply)
            called == [r EXCEPT !.calls = r.calls \o c.calls]
            img_en == extract_image_from_response(c.response)
        IN  IF c.raised THEN finish(called, Raised)
            ELSE IF IsNone(img_en) THEN finish(called, Returned(None))
            ELSE [called EXCEPT !.img_en = img_en, !.pc = "hebrew"]

\* Step 2: the Hebrew edit of the English banner
hebrew_step(r, reply) ==
    LET prompt_he == build_hebrew_edit_prompt(r.course_data)
    IN  IF prompt_he.raised THEN finish(r, Raised)
        ELSE
        LET c == generate_content("hebrew", The(prompt_he.prompt),
                                  <<SavePng(The(r.img_en))>>, reply)
            called == [r EXCEPT !.calls = r.calls \o c.calls]
            img_he == extract_image_from_response(c.response)
        IN  IF c.raised THEN finish(called, Raised)
            ELSE finish([called EXCEPT !.img_he = img_he],
                        Returned(hebrew_result(img_he, r.img_en)))

----------------------------------------------------------------------------
(* Banner pipeline, three-step service (src/_old_python/app.py) *)

\* the clean background's data URL, when step 0 gave an image
background_of(img_bg) ==
    IF IsSome(img_bg) THEN Some(image_to_base64_url(The(img_bg))) ELSE None

\* a pipeline that forgets the fallback
fallback_background_missing(background_url, img_en) == background_url

\* "Use EN banner as fallback background if clean background failed"
fallback_background(background_url, img_en) ==
    IF IsNone(background_url)
    THEN Some(image_to_base64_url(The(img_en)))
    ELSE background_url

\* a pipeline that gives up when the Hebrew edit gave no image
old_hebrew_result_hard_fail(img_he, background_url) ==
    IF IsNone(img_he)
    THEN None
    ELSE Some([banner |-> Some(image_to_base64_url(The(img_he))),
               background |-> background_url])

\* the end of generate_banner_with_hebrew: {"banner", "background"}
old_hebrew_result(img_he, background_url) ==
    IF IsNone(img_he)
    THEN Some([banner |-> background_url, background |-> background_url])
    ELSE Some([banner |-> Some(image_to_base64_url(The(img_he))),
               background |-> background_url])

\* generate_banner after the pipeline: its response
old_generate_banner_respond(pipeline, course_data) ==
    IF pipeline.raised
    THEN JsonResponse(500, [success |-> FALSE, error |-> "exception"])
    ELSE IF IsNone(pipeline.result)
    THEN JsonResponse(500, [success |-> FALSE,
                            error |-> "Failed to generate images"])
    ELSE
    LET result == The(pipeline.result)
    IN  IF IsNone(result.banner) THEN ErrorPage
        ELSE
        LET extracted ==
                extract_palette_from_image(payload_of(The(result.banner)))
        IN  IF extracted.raised THEN ErrorPage
            ELSE JsonResponse(200,
                    [success |-> TRUE,
                     images |-> <<The(result.banner)>>,
                     background_url |-> result.background,
                     extracted_colors |-> extracted.value,
                     generatedAt |-> "now",
                     courseData |-> course_data])

old_finish(r, pipeline) ==
    [r EXCEPT !.pipeline = pipeline, !.pc = "done",
              !.response = Some(old_generate_banner_respond(pipeline,
                                                            r.course_data))]

\* Step 0: the clean background
old_background_step(r, reply) ==
    LET prompt_bg == build_background_prompt(r.course_data)
    IN  IF prompt_bg.raised THEN old_finish(r, Raised)
        ELSE
        LET c == generate_content("background", The(prompt_bg.prompt),
                                  <<>>, reply)
            called == [r EXCEPT !.calls = r.calls \o c.calls]
            img_bg == extract_image_from_response(c.response)
        IN  IF c.raised THEN old_finish(called, Raised)
            ELSE [called EXCEPT !.img_bg = img_bg,
                                !.background_url = background_of(img_bg),
                                !.pc = "english"]

\* Step 1: the English banner
old_english_step(r, reply) ==
    LET prompt_en == build_english_prompt(r.course_data, IsSome(r.logo_img))
    IN  IF prompt_en.raised THEN old_finish(r, Raised)
        ELSE
        LET c == generate_content("english", The(prompt_en.prompt),
                                  logo_parts(r.logo_img), reply)
            called == [r EXCEPT !.calls = r.calls \o c.calls]
            img_en == extract_image_from_response(c.response)
        IN  IF c.raised THEN old_finish(called, Raised)
            ELSE IF IsNone(img_en) THEN old_finish(called, Returned(None))
            ELSE [called EXCEPT
                    !.img_en = img_en,
                    !.background_url =
                        fallback_background(r.background_url, img_en),
                    !.pc = "hebrew"]

\* a pipeline that hands the clean background to the Hebrew edit
old_hebrew_step_edits_background(r, reply) ==
    LET prompt_he == build_hebrew_edit_prompt(r.course_data)
        picture == IF IsSome(r.img_bg) THEN The(r.img_bg) ELSE The(r.img_en)
    IN  IF prompt_he.raised THEN old_finish(r, Raised)
        ELSE
        LET c == generate_content("hebrew", The(prompt_he.prompt),
                                  <<SavePng(picture)>>, reply)
            called == [r EXCEPT !.calls = r.calls \o c.calls]
            img_he == extract_image_from_response(c.response)
        IN  IF c.raised THEN old_finish(called, Raised)
            ELSE old_finish([called EXCEPT !.img_he = img_he],
                            Returned(old_hebrew_result(img_he,
                                                       r.background_url)))

\* Step 2: the Hebrew edit of the English banner
old_hebrew_step(r, reply) ==
    LET prompt_he == build_hebrew_edit_prompt(r.course_data)
    IN  IF prompt_he.raised THEN old_finish(r, Raised)
        ELSE
        LET c == generate_content("hebrew", The(prompt_he.prompt),
                                  <<SavePng(The(r.img_en))>>, reply)
            called == [r EXCEPT !.calls = r.calls \o c.calls]
            img_he == extract_image_from_response(c.response)
        IN  IF c.raised THEN old_finish(called, Raised)
            ELSE old_finish([called EXCEPT !.img_he = img_he],
                            Returned(old_hebrew_result(img_he,
                                                       r.background_url)))

----------------------------------------------------------------------------
(* Landing pages (src/_old_python/app.py) *)

\* `import requests` is missing from the module's imports: the name
\* `requests` is unbound when create_landing evaluates requests.post
RequestsImported == FALSE

\* d.get(k1, {}).get(k2, ...): the inner dict, when every level is a dict
AllDicts(vs) == \A i \in 1..Len(vs) : IsDict(vs[i])

\* the payload create_landing derives for the webhook
landing_payload(landing_id, course_data) ==
    LET details == Get(course_data, "course_details", EmptyObj)
        assets == Get(course_data, "generated_assets", EmptyObj)
        branding == Get(course_data, "branding", EmptyObj)
        landing_config == Get(course_data, "landing_config", EmptyObj)
        theme == IF IsDict(branding) THEN Get(branding, "theme", EmptyObj)
                 ELSE JNull
        colors == IF IsDict(theme) THEN Get(theme, "colors", EmptyObj)
                  ELSE JNull
    IN  IF ~AllDicts(<<details, assets, branding, landing_config,
                       theme, colors>>)
        THEN None
        ELSE Some([action |-> "createLanding",
                   id |-> landing_id,
                   title |-> Get(details, "title", JStr(EmptyStr)),
                   backgroundUrl |-> Get(assets, "background_url",
                                         JStr(EmptyStr)),
                   primary |-> Get(colors, "primary", JStr(<<"#FFD700">>)),
                   requiresInterview |-> Get(landing_config,
                                             "requires_interview", JNull)])

\* the webhook attempt of create_landing, inside its try/except: what went
\* out, and what the handler logged
send_webhook(configured, landing_data, reply) ==
    IF ~configured THEN [sent |-> <<>>, events |-> <<>>]
    ELSE IF ~RequestsImported
    THEN [sent |-> <<>>, events |-> <<"webhook_failed">>]
    ELSE IF reply \in {"raises", "not_json"}
    THEN [sent |-> <<landing_data>>, events |-> <<"webhook_failed">>]
    ELSE IF reply = "success_false"
    THEN [sent |-> <<landing_data>>, events |-> <<"webhook_error">>]
    ELSE [sent |-> <<landing_data>>, events |-> <<"webhook_ok">>]

WebhookReplies == {"raises", "not_json", "success_false", "success_true"}

\* a reply exists only for a call that went out
WebhookRepliesTo(configured) ==
    IF configured /\ RequestsImported THEN WebhookReplies ELSE {"no_call"}

\* a store that keeps the newest landing only
store_landing_alone(store, landing_id, course_data) ==
    landing_id :> [course_data |-> course_data, created_at |-> "now"]

\* landing_pages[landing_id] = {"course_data", "created_at"}
store_landing(store, landing_id, course_data) ==
    (landing_id :> [course_data |-> course_data, created_at |-> "now"])
        @@ store

\* create_landing: the request as handled, and the store after it
create_landing_run(body, landing_id, store, configured, reply) ==
    LET payload == OrEmptyObj(get_json(body))
        crash == [req |-> [Idle EXCEPT !.body = body, !.payload = payload,
                                       !.pc = "done",
                                       !.landing_id = landing_id,
                                       !.response = Some(ErrorPage)],
                  store |-> store]
    IN  IF ~IsDict(payload) THEN crash
        ELSE
        LET course_data == OrEmptyObj(Get(payload, "courseData", JNull))
        IN  IF ~IsDict(course_data) THEN crash
            ELSE
            LET landing_data == landing_payload(landing_id, course_data)
            IN  IF IsNone(landing_data) THEN crash
                ELSE
                LET hook == send_webhook(configured, The(landing_data), reply)
                IN  [req |-> [Idle EXCEPT
                        !.body = body, !.payload = payload,
                        !.course_data = course_data,
                        !.landing_id = landing_id,
                        !.calls = hook.sent,
                        !.events = hook.events \o <<"store_write">>,
                        !.pc = "done",
                        !.response = Some(JsonResponse(200,
                            [success |-> TRUE, landingId |-> landing_id,
                             url |-> <<"http://localhost:3000", "/l/",
                                       landing_id>>]))],
                     store |-> store_landing(store, landing_id, course_data)]

\* the context of the "not found" placeholder page
NotFoundPage(landing_id) ==
    HtmlResponse("landing.html",
        [landing_id |-> landing_id,
         title |-> <<"not-found-title">>,
         description |-> <<"not-found-description">>,
         background_url |-> None,
         colors |-> EmptyObj,
         requires_interview |-> FALSE,
         referral_options |-> <<>>])

\* a view that answers 404 for an unknown identifier
view_landing_page_404(store, landing_id) ==
    IF landing_id \notin DOMAIN store
    THEN [response |-> [status |-> 404, kind |-> "error_page", body |-> <<>>],
          store |-> store]
    ELSE [response |-> HtmlResponse("landing.html",
                          [landing_id |-> landing_id,
                           background_url |-> None]),
          store |-> store]

\* view_landing(landing_id): the page, and the store after it
view_landing_page(store, landing_id) ==
    IF landing_id \notin DOMAIN store
    THEN [response |-> NotFoundPage(landing_id), store |-> store]
    ELSE
    LET course_data == store[landing_id].course_data
        details == Get(course_data, "course_details", EmptyObj)
        assets == Get(course_data, "generated_assets", EmptyObj)
        branding == Get(course_data, "branding", EmptyObj)
        landing_config == Get(course_data, "landing_config", EmptyObj)
        colors == Get(Get(branding, "theme", EmptyObj), "colors", EmptyObj)
    IN  [response |->
            HtmlResponse("landing.html",
                [landing_id |-> landing_id,
                 title |-> Get(details, "title", JStr(EmptyStr)).str,
                 description |->
                     Get(details, "description", JStr(EmptyStr)).str,
                 background_url |->
                     IF "background_url" \in DOMAIN assets.fields
                     THEN Some(assets.fields["background_url"])
                     ELSE None,
                 colors |-> colors,
                 requires_interview |->
                     Truthy(Get(landing_config, "requires_interview",
                                JNull)),
                 referral_options |->
                     Get(landing_config, "referral_options",
                         JArr(<<JStr(<<"friend">>)>>)).fields]),
         store |-> store]

----------------------------------------------------------------------------
(* Inputs *)

MaxParts == 2

\* courseData with branding.logo.url = logo_url
CourseWithLogo(logo_url) ==
    JObj([branding |->
            JObj([logo |-> JObj([url |-> JStr(logo_url),
                                 name |-> JStr(<<"Acme">>)])]),
          course_details |-> JObj([title |-> JStr(<<"T">>)])])

JsonBody(v) == RequestBody("json", v)
CourseBody(cd) == JsonBody(JObj([courseData |-> cd]))

LogoUrls ==
    << <<"/", "static", "/", "logo", ".png">>,
       <<"/", "static", "/", "mark", ".SVG">>,
       <<"/", "static", "/", "missing", ".png">>,
       <<"/", "static", "/", "notes", ".txt">>,
       <<"/", "static", "/", "locked", ".png">>,
       <<"/", "static", "/", "broken", ".svg">>,
       <<"/", "static", "/", "broken", ".png">>,
       <<"/", "static", "/", "..", "/", ".env">>,
       <<"/", "static", "/", "..", "/", "..", "/", "private", ".png">>,
       <<"/", "static", "/", ".", "/", "logo", ".png">>,
       <<"/", "static", "/">>,
       <<"/", "srv", "/", "private", ".png">>,
       <<"static", "/", "logo", ".png">> >>

ShapeBodies ==
    << RequestBody("absent", JNull),
       RequestBody("malformed", JNull),
       JsonBody(JNull),
       JsonBody(JArr(<<JNull>>)),
       JsonBody(JStr(<<"x">>)),
       JsonBody(EmptyObj),
       CourseBody(JNull),
       CourseBody(JStr(<<"x">>)),
       CourseBody(JArr(<<JNull>>)),
       CourseBody(EmptyObj),
       CourseBody(JObj([course_details |-> JObj([title |-> JStr(<<"T">>)])])),
       CourseBody(JObj([branding |-> JObj([logo |-> JNull])])) >>

MaxDescLen == 101

\* a description of n characters, no two of them alike
Desc(n) == [i \in 1..n |-> ToString(i)]

Design == JObj([aesthetic_style |-> JStr(<<"retro">>)])

CourseWithDescription(description) ==
    JObj([course_details |-> JObj([title |-> JStr(<<"T">>),
                                   description |-> description]),
          design_preferences |-> Design])

\* course data without a course_details section
BareCourses ==
    << EmptyObj,
       JObj([design_preferences |-> Design]),
       JObj([design_preferences |-> EmptyObj,
             landing_config |-> JObj([requires_interview |-> JStr(<<"yes">>)])]),
       JObj([branding |-> JObj([logo |-> JNull])]) >>

\* course data in which a section or a field has the wrong type
IllTypedCourses ==
    << JObj([design_preferences |-> JNull]),
       JObj([course_details |-> JStr(<<"x">>)]),
       JObj([course_details |-> JObj([description |-> JNull])]),
       JObj([course_details |-> JObj([description |-> JStr(Desc(3)),
                                      schedule |-> JStr(<<"x">>)])]) >>

PromptCourses ==
    BareCourses
    \o << JObj([course_details |-> EmptyObj]),
          JObj([course_details |->
                  JObj([title |-> JStr(<<"T">>),
                        schedule |-> JObj([dates |-> JStr(<<"d">>)]),
                        location |-> JStr(<<"l">>)])]),
          CourseWithDescription(JArr(<<JNull, JNull>>)) >>
    \o IllTypedCourses
    \o [n \in 1..(MaxDescLen + 1) |->
            CourseWithDescription(JStr(Desc(n - 1)))]

BannerBodies ==
    ShapeBodies
    \o [i \in 1..Len(LogoUrls) |-> CourseBody(CourseWithLogo(LogoUrls[i]))]
    \o [i \in 1..Len(IllTypedCourses) |-> CourseBody(IllTypedCourses[i])]
    \o << CourseBody(CourseWithDescription(JStr(Desc(MaxDescLen)))) >>

NumIds == 2

\* str(uuid.uuid4())[:8]: the short identifiers the generator may give
LandingIds == 1..NumIds

\* an identifier no create-landing request was ever given
UnknownId == NumIds + 1

CourseA ==
    JObj([course_details |-> JObj([title |-> JStr(<<"A">>)]),
          generated_assets |-> JObj([background_url |-> JStr(<<"bgA">>)])])

CourseB ==
    JObj([course_details |-> JObj([title |-> JStr(<<"B">>),
                                   description |-> JStr(<<"d">>)]),
          landing_config |-> JObj([requires_interview |-> JStr(<<"yes">>)])])

LandingBodies ==
    ShapeBodies \o << CourseBody(CourseA), CourseBody(CourseB),
                      CourseBody(JObj([course_details |-> JStr(<<"x">>)])) >>

PartKinds(src) ==
    { TextPart,
      InlinePart(Bytes(FALSE, src, 0)),
      InlinePart(Bytes(TRUE, src, 8)),
      InlinePart(Bytes(TRUE, src, 1)) }

PartSeqs(src) == UNION { [1..k -> PartKinds(src)] : k \in 0..MaxParts }

\* what the generation service may answer to the call of step `src`
Replies(src) ==
    { Reply(TRUE, None, <<>>) }
    \cup { Reply(FALSE, Some(ps), <<>>) : ps \in PartSeqs(src) }
    \cup { Reply(FALSE, None, <<>>), Reply(FALSE, None, <<None>>) }
    \cup { Reply(FALSE, None, <<Some(ps)>>) : ps \in PartSeqs(src) }

\* a few bodies and replies of each kind, for the runs in which every route
\* of the three-step service and of the two-step service is called
FewBodies ==
    << RequestBody("absent", JNull),
       JsonBody(JArr(<<JNull>>)),
       CourseBody(CourseA) >>

FewLandingBodies ==
    << CourseBody(CourseA), CourseBody(CourseB), CourseBody(JStr(<<"x">>)) >>

FewReplies(src) ==
    { Reply(TRUE, None, <<>>),
      Reply(FALSE, Some(<<TextPart>>), <<>>),
      Reply(FALSE, Some(<<InlinePart(Bytes(TRUE, src, 8))>>), <<>>) }

\* the responses handed to extract_image_from_response
ScanResponses ==
    { [parts |-> p, candidates |-> c] :
        p \in {None} \cup { Some(ps) : ps \in PartSeqs("scan") },
        c \in { <<>>, <<None>> }
               \cup { <<Some(ps)>> : ps \in PartSeqs("scan") } }

----------------------------------------------------------------------------
(* Actions *)

Free == req.pc \in {"idle", "done"}

\* POST /api/generate-banner, src/app.py
generate_banner_from(bodies) ==
    /\ Free
    /\ \E i \in 1..Len(bodies) :
         LET r == banner_prelude(bodies[i], HAS_WAND)
         IN  req' = [r EXCEPT !.endpoint = "generate-banner",
                              !.app = "app",
                              !.pc = IF r.pc = "pipeline" THEN "english"
                                     ELSE r.pc]
    /\ UNCHANGED <<HAS_WAND, APPS_SCRIPT_URL, landing_pages>>

generate_banner == generate_banner_from(BannerBodies)

call_english_with(replies) ==
    /\ req.app = "app" /\ req.pc = "english"
    /\ \E reply \in replies : req' = english_step(req, reply)
    /\ UNCHANGED <<HAS_WAND, APPS_SCRIPT_URL, landing_pages>>

call_english == call_english_with(Replies("english"))

call_hebrew_with(replies) ==
    /\ req.app = "app" /\ req.pc = "hebrew"
    /\ \E reply \in replies : req' = hebrew_step(req, reply)
    /\ UNCHANGED <<HAS_WAND, APPS_SCRIPT_URL, landing_pages>>

call_hebrew == call_hebrew_with(Replies("hebrew"))

\* POST /api/generate-banner, src/_old_python/app.py
old_generate_banner_from(bodies) ==
    /\ Free
    /\ \E i \in 1..Len(bodies) :
         LET r == banner_prelude(bodies[i], HAS_WAND)
         IN  req' = [r EXCEPT !.endpoint = "generate-banner",
                              !.app = "old",
                              !.pc = IF r.pc = "pipeline" THEN "background"
                                     ELSE r.pc]
    /\ UNCHANGED <<HAS_WAND, APPS_SCRIPT_URL, landing_pages>>

old_generate_banner == old_generate_banner_from(BannerBodies)

old_call_background_with(replies) ==
    /\ req.app = "old" /\ req.pc = "background"
    /\ \E reply \in replies :
         req' = old_background_step(req, reply)
    /\ UNCHANGED <<HAS_WAND, APPS_SCRIPT_URL, landing_pages>>

old_call_background == old_call_background_with(Replies("background"))

old_call_english_with(replies) ==
    /\ req.app = "old" /\ req.pc = "english"
    /\ \E reply \in replies : req' = old_english_step(req, reply)
    /\ UNCHANGED <<HAS_WAND, APPS_SCRIPT_URL, landing_pages>>

old_call_english == old_call_english_with(Replies("english"))

old_call_hebrew_with(replies) ==
    /\ req.app = "old" /\ req.pc = "hebrew"
    /\ \E reply \in replies : req' = old_hebrew_step(req, reply)
    /\ UNCHANGED <<HAS_WAND, APPS_SCRIPT_URL, landing_pages>>

old_call_hebrew == old_call_hebrew_with(Replies("hebrew"))

\* POST /api/save-course
save_course_from(bodies) ==
    /\ Free
    /\ \E i \in 1..Len(bodies) :
         LET data == OrEmptyObj(get_json(bodies[i]))
         IN  req' = [Idle EXCEPT
                        !.endpoint = "save-course", !.app = "app",
                        !.body = bodies[i], !.payload = data,
                        !.pc = "done",
                        !.response = Some(JsonResponse(200,
                            [success |-> TRUE, courseId |-> "local-dev",
                             savedAt |-> "now", received |-> data]))]
    /\ UNCHANGED <<HAS_WAND, APPS_SCRIPT_URL, landing_pages>>

save_course == save_course_from(ShapeBodies)

\* POST /api/register
register_from(bodies) ==
    /\ Free
    /\ \E i \in 1..Len(bodies) :
         LET data == OrEmptyObj(get_json(bodies[i]))
         IN  req' = [Idle EXCEPT
                        !.endpoint = "register", !.app = "old",
                        !.body = bodies[i], !.payload = data,
                        !.pc = "done",
                        !.response = Some(JsonResponse(200,
                            [success |-> TRUE,
                             message |-> "Registration received",
                             data |-> data]))]
    /\ UNCHANGED <<HAS_WAND, APPS_SCRIPT_URL, landing_pages>>

register == register_from(ShapeBodies)

\* POST /api/create-landing
create_landing_from(bodies) ==
    /\ Free
    /\ \E i \in 1..Len(bodies), id \in LandingIds,
          reply \in WebhookRepliesTo(APPS_SCRIPT_URL) :
         LET run == create_landing_run(bodies[i], id, landing_pages,
                                       APPS_SCRIPT_URL, reply)
         IN  /\ req' = [run.req EXCEPT !.endpoint = "create-landing",
                                       !.app = "old"]
             /\ landing_pages' = run.store
    /\ UNCHANGED <<HAS_WAND, APPS_SCRIPT_URL>>

create_landing == create_landing_from(LandingBodies)

\* GET /landing/<landing_id>
view_landing ==
    /\ Free
    /\ \E id \in LandingIds \cup {UnknownId} :
         LET page == view_landing_page(landing_pages, id)
         IN  /\ req' = [Idle EXCEPT !.endpoint = "view-landing",
                                    !.app = "old", !.landing_id = id,
                                    !.pc = "done",
                                    !.response = Some(page.response)]
             /\ landing_pages' = page.store
    /\ UNCHANGED <<HAS_WAND, APPS_SCRIPT_URL>>

\* the three prompt builders, applied to one course data
build_prompts ==
    /\ \E i \in 1..Len(PromptCourses), has_logo \in BOOLEAN :
         req' = [Idle EXCEPT
                    !.endpoint = "prompt-builders",
                    !.course_data = PromptCourses[i],
                    !.prompts = Some(
                        [has_logo |-> has_logo,
                         background |->
                            build_background_prompt(PromptCourses[i]),
                         english |->
                            build_english_prompt(PromptCourses[i], has_logo),
                         hebrew |->
                            build_hebrew_edit_prompt(PromptCourses[i])])]
    /\ UNCHANGED <<HAS_WAND, APPS_SCRIPT_URL, landing_pages>>

\* extract_image_from_response, applied to one response
extract_image ==
    /\ req.endpoint = "none"
    /\ \E response \in ScanResponses :
         req' = [Idle EXCEPT
                    !.endpoint = "extract-image",
                    !.extraction = Some(
                        [response |-> response,
                         image |-> extract_image_from_response(response)])]
    /\ UNCHANGED <<HAS_WAND, APPS_SCRIPT_URL, landing_pages>>

Init ==
    /\ HAS_WAND \in BOOLEAN
    /\ APPS_SCRIPT_URL \in BOOLEAN
    /\ landing_pages = <<>>
    /\ req = Idle

Next ==
    \/ generate_banner
    \/ call_english
    \/ call_hebrew
    \/ old_generate_banner
    \/ old_call_background
    \/ old_call_english
    \/ old_call_hebrew
    \/ save_course
    \/ register

Spec == Init /\ [][Next]_vars

\* the landing-page endpoints of the three-step service
NextLanding ==
    \/ create_landing
    \/ view_landing

SpecLanding == Init /\ [][NextLanding]_vars

\* every route of both services, on one process state
NextAll ==
    \/ generate_banner_from(FewBodies)
    \/ call_english_with(FewReplies("english"))
    \/ call_hebrew_with(FewReplies("hebrew"))
    \/ old_generate_banner_from(FewBodies)
    \/ old_call_background_with(FewReplies("background"))
    \/ old_call_english_with(FewReplies("english"))
    \/ old_call_hebrew_with(FewReplies("hebrew"))
    \/ save_course_from(FewBodies)
    \/ register_from(FewBodies)
    \/ create_landing_from(FewLandingBodies)
    \/ view_landing

SpecAll == Init /\ [][NextAll]_vars

\* the prompt builders as pure functions of the course data
NextPrompt == build_prompts

SpecPrompt == Init /\ [][NextPrompt]_vars

\* image extraction as a pure function of the response
NextExtract == extract_image

SpecExtract == Init /\ [][NextExtract]_vars

----------------------------------------------------------------------------
(* Properties *)

Response == The(req.response)
BannerDone == req.endpoint = "generate-banner" /\ req.pc = "done"
PipelineEntered == req.pipeline.returned \/ req.pipeline.raised
Called(step) == \E i \in 1..Len(req.calls) : req.calls[i].step = step
CountCalls(step) ==
    Cardinality({ i \in 1..Len(req.calls) : req.calls[i].step = step })

\* C1: when the pipeline ran and the English banner step gave no image, the
\* endpoint answers HTTP 500 with success:false and an error string, and
\* returns neither a banner nor a background, whatever the background step
\* gave.
C1_EnglishFailureIs500 ==
    (BannerDone /\ PipelineEntered /\ IsNone(req.img_en)) =>
        /\ Response.status = 500
        /\ Response.kind = "json"
        /\ Response.body.success = FALSE
        /\ "error" \in DOMAIN Response.body
        /\ "images" \notin DOMAIN Response.body
        /\ "background_url" \notin DOMAIN Response.body

C1_Witness ==
    /\ BannerDone /\ req.app = "old"
    /\ IsSome(req.img_bg) /\ Called("english") /\ IsNone(req.img_en)
    /\ ~req.pipeline.raised
    /\ Response.status = 500

HebrewGaveNoImage ==
    /\ BannerDone /\ req.pipeline.returned
    /\ IsSome(req.img_en) /\ Called("hebrew") /\ IsNone(req.img_he)

\* C3: in the three-step service, when the English banner step gave an image
\* and the Hebrew edit came back without one, the endpoint answers
\* success:true and images[0] is the very value of background_url.
C3_HebrewFailureStillSucceeds ==
    (req.app = "old" /\ HebrewGaveNoImage) =>
        /\ Response.status = 200
        /\ Response.kind = "json"
        /\ Response.body.success = TRUE
        /\ Len(Response.body.images) = 1
        /\ Response.body.background_url = Some(Response.body.images[1])

C3_Witness ==
    /\ req.app = "old" /\ HebrewGaveNoImage
    /\ IsSome(req.img_bg)
    /\ Response.body.success = TRUE

\* C4: a failure of the background step or of the Hebrew edit step, be it a
\* response without an image or an exception raised by the call, never makes
\* the endpoint answer an error: whenever the English banner step gave an
\* image the endpoint answers success.
C4_OptionalFailureNeverErrors ==
    (BannerDone /\ IsSome(req.img_en)) =>
        /\ Response.status = 200
        /\ Response.body.success = TRUE

\* C5: the logo loader reads no file outside the static-asset root, and a
\* reference that resolves outside it gives no logo.
C5_LogoReadsOnlyStatic ==
    \A i \in 1..Len(req.reads) : UnderStatic(req.reads[i])

\* the request asked for a logo and none could be loaded
LogoLoadFailed ==
    /\ req.endpoint = "generate-banner"
    /\ Truthy(req.logo_url)
    /\ IsNone(req.logo_img)

\* C6: a logo that cannot be loaded is no error: the loader does not raise,
\* and generate-banner goes on to the pipeline without a logo.
C6_LogoFailureDegrades ==
    LogoLoadFailed => ~(req.pc = "done" /\ ~PipelineEntered)

\* the banner the pipeline returned, when it returned one
ReturnedBanner ==
    IF ~req.pipeline.returned \/ IsNone(req.pipeline.result) THEN None
    ELSE IF req.app = "old" THEN The(req.pipeline.result).banner
    ELSE req.pipeline.result

\* the palette cannot be computed from this data URL
PaletteFails(url) ==
    \/ ~b64decode(payload_of(url)).decodable
    \/ b64decode(payload_of(url)).colors < 3

\* C7: whenever the pipeline returned a banner the endpoint answers
\* success:true with that banner, and when the palette cannot be computed
\* extracted_colors is null.
C7_PaletteIsBestEffort ==
    (BannerDone /\ IsSome(ReturnedBanner)) =>
        /\ Response.status = 200
        /\ Response.kind = "json"
        /\ Response.body.success = TRUE
        /\ Response.body.images = <<The(ReturnedBanner)>>
        /\ PaletteFails(The(ReturnedBanner)) =>
              IsNone(Response.body.extracted_colors)
        /\ ~PaletteFails(The(ReturnedBanner)) =>
              IsSome(Response.body.extracted_colors)

C7_Witness ==
    /\ BannerDone /\ IsSome(ReturnedBanner)
    /\ PaletteFails(The(ReturnedBanner))
    /\ Response.body.success = TRUE
    /\ IsNone(Response.body.extracted_colors)

\* C8: a GET /landing/<id> for an identifier that is not in the store is
\* answered with the "not found" placeholder page, HTTP 200, with
\* background_url null, and leaves the store as it was.
C8_UnknownLandingIsPlaceholder ==
    [][(view_landing /\ req'.landing_id \notin DOMAIN landing_pages) =>
          /\ The(req'.response).status = 200
          /\ The(req'.response).kind = "html"
          /\ The(req'.response).body.title = <<"not-found-title">>
          /\ IsNone(The(req'.response).body.background_url)
          /\ landing_pages' = landing_pages]_vars

C8_Witness ==
    /\ req.endpoint = "view-landing"
    /\ DOMAIN landing_pages # {}
    /\ req.landing_id \notin DOMAIN landing_pages
    /\ Response.body.title = <<"not-found-title">>

\* the body is absent, is not JSON, is JSON but no object, or is an object
\* whose courseData is missing or is no object
MalformedBody(body) ==
    \/ body.raw # "json"
    \/ ~IsDict(body.json)
    \/ "courseData" \notin DOMAIN body.json.fields
    \/ ~IsDict(body.json.fields["courseData"])

\* C9: no request is rejected because of the shape of its body: an absent or
\* malformed body is handled as the empty object.
C9_MalformedBodyNeverRejected ==
    (req.pc = "done" /\ MalformedBody(req.body)) =>
        Response.kind # "error_page"

\* C10: within one generate-banner request each generation call is issued
\* at most once: at most three calls in the three-step service, at most two
\* in the two-step service, none of them the background call there.
C10_NoRetry ==
    req.endpoint = "generate-banner" =>
        /\ \A step \in {"background", "english", "hebrew"} :
              CountCalls(step) <= 1
        /\ \A i \in 1..Len(req.calls) :
              req.calls[i].step \in {"background", "english", "hebrew"}
        /\ Len(req.calls) <= IF req.app = "old" THEN 3 ELSE 2

C10_Witness ==
    /\ BannerDone /\ req.app = "old"
    /\ Len(req.calls) = 3
    /\ IsNone(req.img_bg) /\ IsNone(req.img_he)

\* C11: whenever the webhook URL is configured, a create-landing request
\* that is answered with its landing id has issued the outbound webhook call
\* exactly once, and the payload it relayed carries that landing id.
C11_WebhookRelayed ==
    (/\ req.endpoint = "create-landing" /\ req.pc = "done"
     /\ APPS_SCRIPT_URL
     /\ Response.kind = "json") =>
        /\ Len(req.calls) = 1
        /\ req.calls[1].action = "createLanding"
        /\ req.calls[1].id = req.landing_id

\* C12: a generate-banner request that reached the pipeline is answered
\* either with success:true, exactly one data-URL image in images and a
\* background_url holding a non-empty image data URL, or with success:false,
\* an error string and HTTP 500.
C12_ResponseShape ==
    (BannerDone /\ PipelineEntered) =>
        /\ Response.kind = "json"
        /\ \/ /\ Response.status = 200
              /\ Response.body.success = TRUE
              /\ Len(Response.body.images) = 1
              /\ Response.body.images[1].prefix = "data:image/png;base64"
              /\ "background_url" \in DOMAIN Response.body
              /\ IsSome(Response.body.background_url)
              /\ The(Response.body.background_url).prefix =
                    "data:image/png;base64"
           \/ /\ Response.status = 500
              /\ Response.body.success = FALSE
              /\ "error" \in DOMAIN Response.body

\* the prompt builders were applied to req.course_data
PromptsBuilt == req.endpoint = "prompt-builders" /\ IsSome(req.prompts)

\* every section the course data has is an object, as in the data model
SectionsAreObjects(cd) == \A k \in DOMAIN cd.fields : IsDict(cd.fields[k])

StringDescription ==
    IF /\ "course_details" \in DOMAIN req.course_data.fields
       /\ IsDict(req.course_data.fields["course_details"])
       /\ "description" \in
             DOMAIN req.course_data.fields["course_details"].fields
       /\ IsStr(req.course_data.fields["course_details"]
                   .fields["description"])
    THEN Some(req.course_data.fields["course_details"]
                 .fields["description"].str)
    ELSE None

\* the first n characters of d, the whole of d when it is shorter
FirstChars(d, n) == [i \in 1..(IF Len(d) < n THEN Len(d) ELSE n) |-> d[i]]

\* C14: whatever the length of the description string, the subtitle of the
\* English prompt is the first 60 characters of the description (followed by
\* an ellipsis), the subtitle of the Hebrew edit prompt is its first 80, and
\* the context of the background prompt is its first 100; a shorter
\* description is kept whole.
C14_TruncationIsExact ==
    (PromptsBuilt /\ IsSome(StringDescription)) =>
        LET p == The(req.prompts)
            d == The(StringDescription)
        IN  /\ ~p.english.raised =>
                  The(p.english.prompt).subtitle =
                      FirstChars(d, 60) \o <<"...">>
            /\ ~p.hebrew.raised =>
                  The(p.hebrew.prompt).subtitle = FirstChars(d, 80)
            /\ ~p.background.raised =>
                  The(p.background.prompt).context = FirstChars(d, 100)

C14_Witness ==
    /\ PromptsBuilt /\ IsSome(StringDescription)
    /\ Len(The(StringDescription)) > 100
    /\ ~The(req.prompts).english.raised
    /\ ~The(req.prompts).hebrew.raised
    /\ ~The(req.prompts).background.raised
    /\ Len(The(The(req.prompts).english.prompt).subtitle) = 61
    /\ Len(The(The(req.prompts).hebrew.prompt).subtitle) = 80
    /\ Len(The(The(req.prompts).background.prompt).context) = 100

\* the place of a generation step in the pipeline
StepRank(step) ==
    CASE step = "background" -> 0
      [] step = "english" -> 1
      [] step = "hebrew" -> 2

\* C15: the generation calls of a request are issued in the order
\* background, English banner, Hebrew edit (the three-step service always
\* starts with the background call); a Hebrew edit call is issued only
\* after the English banner step of the same request gave an image, its
\* image input is that English banner and nothing else, and no Hebrew edit
\* call is issued when the English step gave no image.
C15_StepOrder ==
    req.endpoint = "generate-banner" =>
        /\ \A i, j \in 1..Len(req.calls) :
              i < j => StepRank(req.calls[i].step) < StepRank(req.calls[j].step)
        /\ (req.app = "old" /\ Len(req.calls) > 0) =>
              req.calls[1].step = "background"
        /\ \A i \in 1..Len(req.calls) :
              req.calls[i].step = "hebrew" =>
                  /\ i > 1
                  /\ req.calls[i - 1].step = "english"
                  /\ IsSome(req.img_en)
                  /\ req.calls[i].images = <<SavePng(The(req.img_en))>>
        /\ IsNone(req.img_en) => ~Called("hebrew")

C15_Witness ==
    /\ BannerDone /\ req.app = "old"
    /\ IsSome(req.img_bg) /\ IsSome(req.img_en)
    /\ Len(req.calls) = 3
    /\ req.calls[3].step = "hebrew"
    /\ req.calls[3].images = <<SavePng(The(req.img_en))>>
    /\ req.calls[3].images # <<SavePng(The(req.img_bg))>>

\* C16: when the Hebrew edit returns no image, the banner returned to the
\* client is the image the English banner step of the same request
\* produced, whether or not the background step gave an image.
C16_FallbackIsEnglish ==
    HebrewGaveNoImage =>
        /\ Response.status = 200
        /\ Response.body.success = TRUE
        /\ Response.body.images =
              <<image_to_base64_url(The(req.img_en))>>

\* the parts the extraction reads: response.parts, or, when that is None,
\* the parts of the first candidate
PartsOf(response) ==
    IF IsSome(response.parts) THEN The(response.parts)
    ELSE IF Len(response.candidates) > 0 /\ IsSome(response.candidates[1])
    THEN The(response.candidates[1])
    ELSE <<>>

\* the positions of the parts that carry inline data the decoder accepts
DecodablePositions(parts) ==
    { i \in 1..Len(parts) :
        /\ IsSome(parts[i].inline_data)
        /\ The(parts[i].inline_data).decodable }

\* C17: image extraction returns the image of the first part, in the order
\* of the response, that carries inline data which decodes; parts without
\* inline data and parts whose data does not decode are passed over; the
\* result is none when the response has no parts or none of them decodes.
C17_FirstDecodableImage ==
    (req.endpoint = "extract-image" /\ IsSome(req.extraction)) =>
        LET parts == PartsOf(The(req.extraction).response)
            hits == DecodablePositions(parts)
            image == The(req.extraction).image
        IN  IF hits = {} THEN IsNone(image)
            ELSE LET first == CHOOSE i \in hits : \A j \in hits : i <= j
                     data == The(parts[first].inline_data)
                 IN  image = Some([src |-> data.src, colors |-> data.colors])

C17_Witness ==
    /\ req.endpoint = "extract-image" /\ IsSome(req.extraction)
    /\ LET parts == PartsOf(The(req.extraction).response)
       IN  /\ Len(parts) = 2
           /\ IsSome(parts[1].inline_data)
           /\ ~The(parts[1].inline_data).decodable
           /\ IsSome(parts[2].inline_data)
           /\ The(parts[2].inline_data).decodable
    /\ IsSome(The(req.extraction).image)

\* C18: a landing id that was returned to a client stays in the store and
\* keeps the course data of the request it was returned to, whatever
\* create-landing requests follow.
C18_EntriesKept ==
    [][\A id \in DOMAIN landing_pages :
          /\ id \in DOMAIN landing_pages'
          /\ landing_pages'[id].course_data = landing_pages[id].course_data]_vars

\* C19: every create-landing request stores its entry and is answered
\* success:true with its landing id and url, whatever became of the webhook
\* attempt, and the webhook attempt comes before the store write.
C19_AlwaysStoredAndAnswered ==
    (req.endpoint = "create-landing" /\ req.pc = "done") =>
        /\ Response.kind = "json"
        /\ Response.status = 200
        /\ Response.body.success = TRUE
        /\ Response.body.landingId = req.landing_id
        /\ "url" \in DOMAIN Response.body
        /\ req.landing_id \in DOMAIN landing_pages
        /\ landing_pages[req.landing_id].course_data = req.course_data
        /\ Len(req.events) > 0
        /\ req.events[Len(req.events)] = "store_write"
        /\ \A i \in 1..(Len(req.events) - 1) : req.events[i] # "store_write"

\* the keys on which two stores differ
ChangedKeys(before, after) ==
    { id \in DOMAIN before \cup DOMAIN after :
        \/ id \notin DOMAIN before
        \/ id \notin DOMAIN after
        \/ before[id] # after[id] }

\* C20: a step that changes the landing-page store is a create-landing
\* request, and it adds or overwrites exactly one key, the identifier it
\* returns; a create-landing request that is answered with its identifier
\* has written that key; the steps of save-course, register, generate-banner
\* and GET /landing/<id>, found or not, leave the store as it was.
C20_OnlyCreateLandingWrites ==
    [][/\ landing_pages' # landing_pages =>
            /\ req'.endpoint = "create-landing"
            /\ ChangedKeys(landing_pages, landing_pages') = {req'.landing_id}
            /\ req'.landing_id \in DOMAIN landing_pages'
       /\ (req'.endpoint = "create-landing"
              /\ The(req'.response).kind = "json") =>
            /\ req'.landing_id \in DOMAIN landing_pages'
            /\ landing_pages'[req'.landing_id].course_data = req'.course_data
            /\ ChangedKeys(landing_pages, landing_pages')
                  \subseteq {req'.landing_id}
       /\ req'.endpoint \in {"save-course", "register", "generate-banner",
                             "view-landing"} =>
            landing_pages' = landing_pages]_vars

C20_Witness ==
    /\ req.endpoint = "view-landing"
    /\ req.landing_id \in DOMAIN landing_pages
    /\ Cardinality(DOMAIN landing_pages) = 2
    /\ \E a, b \in DOMAIN landing_pages :
          landing_pages[a].course_data # landing_pages[b].course_data

====
